---- MODULE Spec2Model ----
(***************************************************************************)
(* A model of zoptilib.py: the Zopti configuration object (metric          *)
(* selection, per-metric parameter bags), the filter graph that run()      *)
(* builds, and the per-frame callback calc() that accumulates frame        *)
(* properties and writes the report file.                                  *)
(*                                                                         *)
(* Python values are modelled as follows.  A list is a sequence.  A dict   *)
(* is a function whose domain is its key set; where the code depends on a  *)
(* dict's insertion order (per_frame_data.items()) the dict is a record    *)
(* [keys, val] with keys the sequence of keys in insertion order.  None,   *)
(* True and False are the strings "None", "True", "False".  A raised       *)
(* exception is the record err = [type, msg]; a handler that raises keeps  *)
(* the assignments it made before the raise.                               *)
(***************************************************************************)
EXTENDS Integers, Sequences, FiniteSets, TLC

VARIABLES metrics, params, matrix, tv_range, vmaf_model, start_time,
          now, phase, last, err,
          total_frames, data, prop_src, calls, final,
          report, wrote, visited

vars == <<metrics, params, matrix, tv_range, vmaf_model, start_time,
          now, phase, last, err,
          total_frames, data, prop_src, calls, final,
          report, wrote, visited>>

selfVars == <<metrics, params, matrix, tv_range, vmaf_model, start_time>>
runVars == <<total_frames, data, prop_src, calls, final>>
fileVars == <<report, wrote, visited>>

(***************************************************************************)
(* Bounds of the model.                                                    *)
(***************************************************************************)
\* longest metric selection explored
MaxMetrics == 3
\* longest list handed to the constructor or to addMetrics
MaxList == 2
\* frames of the longest clip
MaxFrames == 2
\* clock ticks after construction
MaxTime == 1

(***************************************************************************)
(* Helpers for Python lists, sets and dicts.                               *)
(***************************************************************************)
Range(s) == {s[i] : i \in DOMAIN s}

Lists(S, k) == UNION {[1..j -> S] : j \in 0..k}

EmptyDict == [k \in {} |-> ""]

\* d.update(e)
DictUpdate(d, e) ==
  [k \in (DOMAIN d) \cup (DOMAIN e) |-> IF k \in DOMAIN e THEN e[k] ELSE d[k]]

\* the one element of a singleton set; {e(x) : x \in {v}} evaluates v once and
\* names its value x in e
Only(S) == CHOOSE x \in S : TRUE

NoErr == [type |-> "none", msg |-> ""]
Raise(t, m) == [type |-> t, msg |-> m]

(***************************************************************************)
(* Zopti.__init__: the fixed tables.                                       *)
(***************************************************************************)
valid_metrics == <<"time", "ssim", "gmsd", "mdsi", "butteraugli", "vmaf", "wadiqam">>

supported_with_vmaf == <<"time", "ssim">>

default_params ==
  [m \in {"ssim", "gmsd", "mdsi", "wadiqam"} |->
     CASE m = "ssim"    -> [k \in {"downsample"} |-> "False"]
       [] m = "gmsd"    -> [k \in {"downsample"} |-> "False"]
       [] m = "mdsi"    -> [k \in {"down_scale"} |-> "1"]
       [] m = "wadiqam" -> [k \in {"use_cuda"} |-> "False"]]

\* metric names a caller may pass: the valid ones and one that is not
MetricNames == Range(valid_metrics) \cup {"psnr"}

(***************************************************************************)
(* Zopti.addMetric and Zopti.addMetrics as functions of the selection.     *)
(* The result is the selection after the call and the exception raised.    *)
(***************************************************************************)
\* addMetric without the test of lines 104-106
addMetric_NoLaterCheck(ms, metric) ==
  IF metric \in Range(valid_metrics)
  THEN IF metric = "vmaf"
            /\ Cardinality(Range(ms) \cap Range(supported_with_vmaf)) # Len(ms)
       THEN [metrics |-> ms,
             err |-> Raise("NameError", "Only these metrics are supported with vmaf")]
       ELSE [metrics |-> Append(ms, metric), err |-> NoErr]
  ELSE [metrics |-> ms, err |-> Raise("NameError", "Unknown metric")]

\* addMetric without the test of line 100
addMetric_AcceptAll(ms, metric) ==
  IF metric = "vmaf"
     /\ Cardinality(Range(ms) \cap Range(supported_with_vmaf)) # Len(ms)
  THEN [metrics |-> ms,
        err |-> Raise("NameError", "Only these metrics are supported with vmaf")]
  ELSE IF metric \notin Range(supported_with_vmaf) /\ "vmaf" \in Range(ms)
  THEN [metrics |-> ms,
        err |-> Raise("NameError", "Only these metrics are supported with vmaf")]
  ELSE [metrics |-> Append(ms, metric), err |-> NoErr]

addMetric(ms, metric) ==
  IF metric \in Range(valid_metrics)
  THEN IF metric = "vmaf"
       THEN IF Cardinality(Range(ms) \cap Range(supported_with_vmaf)) # Len(ms)
            THEN [metrics |-> ms,
                  err |-> Raise("NameError", "Only these metrics are supported with vmaf")]
            ELSE [metrics |-> Append(ms, metric), err |-> NoErr]
       ELSE IF metric \notin Range(supported_with_vmaf) /\ "vmaf" \in Range(ms)
            THEN [metrics |-> ms,
                  err |-> Raise("NameError", "Only these metrics are supported with vmaf")]
            ELSE [metrics |-> Append(ms, metric), err |-> NoErr]
  ELSE [metrics |-> ms, err |-> Raise("NameError", "Unknown metric")]

\* addMetrics going on after a rejected name
RECURSIVE addMetrics_SkipRejected(_, _)
addMetrics_SkipRejected(ms, list) ==
  IF list = <<>>
  THEN [metrics |-> ms, err |-> NoErr]
  ELSE LET r == addMetric(ms, Head(list))
           t == addMetrics_SkipRejected(r.metrics, Tail(list))
       IN  IF r.err # NoErr THEN [metrics |-> t.metrics, err |-> r.err] ELSE t

RECURSIVE addMetrics(_, _)
addMetrics(ms, list) ==
  IF list = <<>>
  THEN [metrics |-> ms, err |-> NoErr]
  ELSE LET r == addMetric(ms, Head(list))
       IN  IF r.err # NoErr THEN r ELSE addMetrics(r.metrics, Tail(list))

(***************************************************************************)
(* The state in the constructor after self.metrics = [] (line 94), for a   *)
(* given matrix and tv_range argument.  Construct is the rest of __init__. *)
(***************************************************************************)
StartTimes == {7}

NoClip == [format |-> "none", range |-> "none", props |-> {}, frames |-> 0]

NoFile == [exists |-> FALSE, lines |-> <<>>, stop |-> <<>>]

InitWith(mx, tv) ==
  /\ metrics = <<>>
  /\ params = default_params
  /\ matrix = mx
  /\ tv_range = tv
  /\ vmaf_model = "0"
  /\ start_time \in StartTimes
  /\ now = start_time
  /\ phase = "ctor"
  /\ last = "init"
  /\ err = NoErr
  /\ total_frames = 0
  /\ data = <<>>
  /\ prop_src = <<>>
  /\ calls = <<>>
  /\ final = NoClip
  /\ report = NoFile
  /\ wrote = FALSE
  /\ visited = {}

Init == InitWith("None", "None")

\* __init__, lines 95-96: if metrics: self.addMetrics(metrics)
Construct(list) ==
  /\ phase = "ctor"
  /\ LET r == addMetrics(metrics, list)
     IN  /\ metrics' = r.metrics
         /\ err' = r.err
         /\ phase' = IF r.err = NoErr THEN "ready" ELSE "failed"
  /\ last' = "init"
  /\ UNCHANGED <<params, matrix, tv_range, vmaf_model, start_time, now>>
  /\ UNCHANGED runVars
  /\ UNCHANGED fileVars

AddMetric(metric) ==
  /\ phase = "ready"
  /\ Len(metrics) < MaxMetrics
  /\ LET r == addMetric(metrics, metric)
     IN  /\ metrics' = r.metrics
         /\ err' = r.err
  /\ last' = "addMetric"
  /\ UNCHANGED <<params, matrix, tv_range, vmaf_model, start_time, now, phase>>
  /\ UNCHANGED runVars
  /\ UNCHANGED fileVars

AddMetrics(list) ==
  /\ phase = "ready"
  /\ Len(metrics) + Len(list) <= MaxMetrics
  /\ LET r == addMetrics(metrics, list)
     IN  /\ metrics' = r.metrics
         /\ err' = r.err
  /\ last' = "addMetrics"
  /\ UNCHANGED <<params, matrix, tv_range, vmaf_model, start_time, now, phase>>
  /\ UNCHANGED runVars
  /\ UNCHANGED fileVars

(***************************************************************************)
(* Zopti.setVMAFModel and Zopti.addParams.                                 *)
(***************************************************************************)
SetVMAFModel(model) ==
  /\ phase = "ready"
  /\ vmaf_model' = model
  /\ err' = NoErr
  /\ last' = "setVMAFModel"
  /\ UNCHANGED <<metrics, params, matrix, tv_range, start_time, now, phase>>
  /\ UNCHANGED runVars
  /\ UNCHANGED fileVars

\* a params argument: a dict, or a value of another type
ParamInputs ==
  { [type |-> "dict", val |-> [k \in {"downsample"} |-> "True"]],
    [type |-> "dict", val |-> [k \in {"show_map"} |-> "True"]],
    [type |-> "list", val |-> EmptyDict] }

\* self.params[metric] is looked up before update() is called on it
addParams(ps, metric, p) ==
  IF metric \in Range(valid_metrics)
  THEN IF p.type = "dict"
       THEN IF metric \in DOMAIN ps
            THEN [params |-> [ps EXCEPT ![metric] = DictUpdate(@, p.val)], err |-> NoErr]
            ELSE [params |-> ps, err |-> Raise("KeyError", metric)]
       ELSE [params |-> ps,
             err |-> Raise("NameError", "The parameters list should look like this")]
  ELSE [params |-> ps, err |-> Raise("NameError", "Unknown metric")]

AddParams(metric, p) ==
  /\ phase = "ready"
  /\ LET r == addParams(params, metric, p)
     IN  /\ params' = r.params
         /\ err' = r.err
  /\ last' = "addParams"
  /\ UNCHANGED <<metrics, matrix, tv_range, vmaf_model, start_time, now, phase>>
  /\ UNCHANGED runVars
  /\ UNCHANGED fileVars

(***************************************************************************)
(* Clips of the host runtime.  A clip is its format, the _ColorRange frame *)
(* property set on it ("unset", "0" full, "1" limited), the names of the   *)
(* frame properties the filters before it attached, and its frame count.   *)
(* A filter call is recorded as [fn, clip, ref, args].                     *)
(***************************************************************************)
Clip(format, n) == [format |-> format, range |-> "unset", props |-> {}, frames |-> n]

InputFormats == {"YUV420P8", "GRAY8", "RGB24"}

\* clip.format.color_family
ColorFamily(format) ==
  CASE format \in {"RGB24", "RGB27", "RGB30", "RGB48", "RGBS"} -> "RGB"
    [] format \in {"GRAY8"} -> "GRAY"
    [] OTHER -> "YUV"

\* clip.std.SetFrameProp(prop="_ColorRange", intval=v)
SetColorRange(clip, v) == [clip EXCEPT !.range = v]

\* the formats table of toRGB, looked up with formats.get(3*bits_per_component)
RGBFormat(bits) ==
  CASE 3 * bits = 24 -> "RGB24"
    [] 3 * bits = 27 -> "RGB27"
    [] 3 * bits = 30 -> "RGB30"
    [] 3 * bits = 48 -> "RGB48"
    [] 3 * bits = 96 -> "RGBS"
    [] OTHER -> "None"

\* core.resize.Bicubic(clip, format=..., ...): the clip in the given format
Resize(clip, args) ==
  [clip EXCEPT !.format = IF args["format"] = "None" THEN @ ELSE args["format"]]

\* Zopti.toRGB: the clip returned and the filter calls made
toRGB(clip, mx, linear, bits_per_component, tv) ==
  IF ColorFamily(clip.format) # "RGB"
  THEN LET format == RGBFormat(bits_per_component)
           m2 == IF mx = "601" THEN "470bg" ELSE mx
           c1 == IF tv = "None" THEN clip
                 ELSE IF tv = "False" THEN SetColorRange(clip, "0")
                 ELSE SetColorRange(clip, "1")
           base == [k \in {"format", "matrix_in_s", "dither_type"} |->
                      CASE k = "format" -> format
                        [] k = "matrix_in_s" -> m2
                        [] k = "dither_type" -> "error_diffusion"]
           transfer_in == IF m2 = "470bg" \/ m2 = "170m" THEN "601" ELSE "709"
           args == IF ~linear THEN base
                   ELSE DictUpdate(base,
                          [k \in {"transfer_in_s", "transfer_s"} |->
                             IF k = "transfer_in_s" THEN transfer_in ELSE "linear"])
       IN  [clip |-> Resize(c1, args),
            calls |-> <<[fn |-> "resize.Bicubic", clip |-> c1, ref |-> NoClip, args |-> args]>>]
  ELSE [clip |-> clip, calls |-> <<>>]

(***************************************************************************)
(* Zopti.run.                                                              *)
(***************************************************************************)
NeedMatrix == Raise("NameError", "RGB conversion needed - please specify the color matrix")

\* convertToRGB without the test of lines 141-142, converting with '709'
convertToRGB_NoMatrixCheck(metric, clip, mx, linear, bits_per_component) ==
  IF ColorFamily(clip.format) = "RGB"
  THEN [clip |-> clip, calls |-> <<>>, err |-> NoErr]
  ELSE LET r == toRGB(clip, "709", linear, bits_per_component, "None")
       IN  [clip |-> r.clip, calls |-> r.calls, err |-> NoErr]

\* run.convertToRGB: the clip returned, the filter calls made, the exception
convertToRGB(metric, clip, mx, linear, bits_per_component) ==
  IF ColorFamily(clip.format) = "RGB"
  THEN [clip |-> clip, calls |-> <<>>, err |-> NoErr]
  ELSE IF mx = "None"
  THEN [clip |-> clip, calls |-> <<>>, err |-> NeedMatrix]
  ELSE LET r == toRGB(clip, mx, linear, bits_per_component, "None")
       IN  [clip |-> r.clip, calls |-> r.calls, err |-> NoErr]

\* class FrameData
FrameData(name) ==
  [name |-> name, per_frame_data |-> [keys |-> <<>>, val |-> EmptyDict]]

\* the library function run calls for a metric, and the frame property in
\* which that function leaves its per-frame result
MetricFn(metric) ==
  CASE metric = "gmsd" -> "muv.GMSD"
    [] metric = "ssim" -> "muv.SSIM"
    [] metric = "mdsi" -> "muv.MDSI"
    [] metric = "butteraugli" -> "Butteraugli.butteraugli"
    [] metric = "wadiqam" -> "vs_wadiqam.vs_wadiqam"
    [] OTHER -> "none"

LibraryProp(metric) ==
  CASE metric = "gmsd" -> "PlaneGMSD"
    [] metric = "ssim" -> "PlaneSSIM"
    [] metric = "mdsi" -> "FrameMDSI"
    [] metric = "butteraugli" -> "_Diff"
    [] metric = "wadiqam" -> "Frame_WaDIQaM"
    [] OTHER -> "none"

\* alt_clip = metric_function(alt_clip, clip, **args); prop_src = [alt_clip];
\* data.append(FrameData(metric))
MetricCall(st, metric, args) ==
  LET out == [st.alt_clip EXCEPT !.props = @ \cup {LibraryProp(metric)}]
  IN  [st EXCEPT !.alt_clip = out,
                 !.prop_src = <<out>>,
                 !.data = Append(@, FrameData(metric)),
                 !.calls = Append(@, [fn |-> MetricFn(metric), clip |-> st.alt_clip,
                                      ref |-> st.clip, args |-> args])]

\* clip = convertToRGB(.., clip, ..); alt_clip = convertToRGB(.., alt_clip, ..);
\* then the call.  An assignment whose right side raises does not happen.
RGBMetricCall(st, metric, label, bits, args) ==
  Only({ IF r1.err # NoErr
         THEN [st EXCEPT !.err = r1.err]
         ELSE Only({ IF r2.err # NoErr
                     THEN [st EXCEPT !.clip = r1.clip, !.calls = @ \o r1.calls,
                                     !.err = r2.err]
                     ELSE MetricCall([st EXCEPT !.clip = r1.clip, !.alt_clip = r2.clip,
                                                !.calls = @ \o r1.calls \o r2.calls],
                                     metric, args)
                     : r2 \in {convertToRGB(label, st.alt_clip, matrix, FALSE, bits)} })
         : r1 \in {convertToRGB(label, st.clip, matrix, FALSE, bits)} })

\* one iteration of "for metric in self.metrics"
runMetric(st, metric) ==
  LET filter_args == IF metric \in DOMAIN params THEN params[metric] ELSE EmptyDict
  IN  CASE metric = "gmsd" -> MetricCall(st, metric, filter_args)
        [] metric = "ssim" -> MetricCall(st, metric, filter_args)
        [] metric = "mdsi" -> RGBMetricCall(st, metric, "MDSI", 8, filter_args)
        [] metric = "butteraugli" -> RGBMetricCall(st, metric, "Butteraugli", 8, EmptyDict)
        [] metric = "wadiqam" -> RGBMetricCall(st, metric, "wadiqam", 32, filter_args)
        [] metric = "time" -> [st EXCEPT !.data = Append(@, FrameData("time"))]
        [] OTHER -> [st EXCEPT !.err = Raise("NameError", "Unknown metric")]

RECURSIVE runLoop(_, _)
runLoop(st, list) ==
  IF list = <<>> \/ st.err # NoErr
  THEN st
  ELSE Only({ runLoop(s, Tail(list)) : s \in {runMetric(st, Head(list))} })

\* run(clip, alt_clip): the exception raised, the filter calls made, and, when
\* none was raised, what the returned clip and its callback hold on to
run(clip, alt_clip) ==
  LET c0 == IF tv_range = "None" THEN clip
            ELSE IF tv_range = "False" THEN SetColorRange(clip, "0")
            ELSE SetColorRange(clip, "1")
      a0 == IF tv_range = "None" THEN alt_clip
            ELSE IF tv_range = "False" THEN SetColorRange(alt_clip, "0")
            ELSE SetColorRange(alt_clip, "1")
      st0 == [clip |-> c0, alt_clip |-> a0, data |-> <<>>, prop_src |-> <<>>,
              calls |-> <<>>, err |-> NoErr]
  IN  IF Len(metrics) = 0
      THEN [st0 EXCEPT !.err = Raise("ValueError", "No metrics defined")]
             @@ [final |-> NoClip, total_frames |-> 0, vmaf |-> FALSE]
      ELSE IF "vmaf" \notin Range(metrics)
      THEN Only({ st @@ [final |-> st.alt_clip, total_frames |-> c0.frames,
                               vmaf |-> FALSE]
                  : st \in {runLoop(st0, metrics)} })
      ELSE LET calc_ssim == IF "ssim" \in Range(metrics) THEN "True" ELSE "False"
               args == [k \in {"model", "log_fmt", "ssim", "ms_ssim", "pool", "ci"} |->
                          CASE k = "model" -> vmaf_model
                            [] k = "log_fmt" -> "0"
                            [] k = "ssim" -> calc_ssim
                            [] k = "ms_ssim" -> "False"
                            [] k = "pool" -> "0"
                            [] k = "ci" -> "False"]
           IN  [st0 EXCEPT !.calls = <<[fn |-> "vmaf.VMAF", clip |-> c0, ref |-> a0,
                                        args |-> args]>>]
                 @@ [final |-> c0, total_frames |-> 0, vmaf |-> TRUE]

Run(clip, alt_clip) ==
  /\ phase = "ready"
  /\ \E r \in {run(clip, alt_clip)} :
         /\ err' = r.err
         /\ calls' = r.calls
         /\ IF r.err = NoErr
            THEN /\ phase' = IF r.vmaf THEN "vmaf" ELSE "running"
                 /\ total_frames' = r.total_frames
                 /\ data' = r.data
                 /\ prop_src' = r.prop_src
                 /\ final' = r.final
            ELSE UNCHANGED <<phase, total_frames, data, prop_src, final>>
  /\ last' = "run"
  /\ UNCHANGED selfVars
  /\ UNCHANGED <<now>>
  /\ UNCHANGED fileVars

(***************************************************************************)
(* The callback calc(n, f) that run registers with FrameEval, and the host *)
(* evaluating frame n of the returned clip.  f is the frame of prop_src[0] *)
(* (no frame when prop_src is empty): its properties, one value each.      *)
(***************************************************************************)
\* d[k] = v adding an entry even when k is a key already
DictSet_Append(d, k, v) ==
  [keys |-> Append(d.keys, k),
   val |-> [x \in (DOMAIN d.val) \cup {k} |-> IF x = k THEN v ELSE d.val[x]]]

\* d[k] = v on a dict that keeps its keys in insertion order
DictSet(d, k, v) ==
  [keys |-> IF k \in Range(d.keys) THEN d.keys ELSE Append(d.keys, k),
   val |-> [x \in (DOMAIN d.val) \cup {k} |-> IF x = k THEN v ELSE d.val[x]]]

\* save_per_frame_data(n, frame_data, f): the FrameData after the call and the
\* exception raised
save_per_frame_data(n, frame_data, f) ==
  LET known == frame_data.name \in {"gmsd", "ssim", "mdsi", "butteraugli", "wadiqam", "time"}
      prop_name == CASE frame_data.name = "gmsd" -> "PlaneGMSD"
                     [] frame_data.name = "ssim" -> "PlaneSSIM"
                     [] frame_data.name = "mdsi" -> "FrameMDSI"
                     [] frame_data.name = "butteraugli" -> "_Diff"
                     [] frame_data.name = "wadiqam" -> "Frame_WaDIQaM"
                     [] OTHER -> ""
  IN  IF ~known
      THEN [fd |-> frame_data, err |-> Raise("NameError", "Unknown per frame type")]
      ELSE IF prop_name = ""
      THEN [fd |-> frame_data, err |-> NoErr]
      ELSE IF prop_name \notin DOMAIN f
      THEN [fd |-> frame_data, err |-> Raise("KeyError", prop_name)]
      ELSE [fd |-> [frame_data EXCEPT !.per_frame_data = DictSet(@, n, f[prop_name])],
            err |-> NoErr]

\* for frame_data in data: save_per_frame_data(n, frame_data, f); the loop
\* stops at the first exception
RECURSIVE saveAll(_, _, _, _)
saveAll(d, i, n, f) ==
  IF i > Len(d)
  THEN [data |-> d, err |-> NoErr]
  ELSE Only({ IF r.err # NoErr
              THEN [data |-> d, err |-> r.err]
              ELSE saveAll([d EXCEPT ![i] = r.fd], i + 1, n, f)
              : r \in {save_per_frame_data(n, d[i], f)} })

\* sum(frame_data.per_frame_data.values())
RECURSIVE SumValues(_)
SumValues(val) ==
  IF DOMAIN val = {}
  THEN 0
  ELSE LET k == CHOOSE x \in DOMAIN val : TRUE
       IN  val[k] + SumValues([x \in (DOMAIN val) \ {k} |-> val[x]])

\* the completion test true one frame early
Complete_OneEarly(d, total) == Len(d[1].per_frame_data.keys) + 1 >= total

\* len(data[0].per_frame_data) == total_frames
Complete(d, total) == Len(d[1].per_frame_data.keys) = total

\* the text of one frame's line, as the fields that '; ' ends
FrameLine(d, frame_nbr) ==
  <<ToString(frame_nbr)>> \o
    [i \in DOMAIN d |-> IF d[i].name = "time"
                        THEN "0.0"
                        ELSE ToString(d[i].per_frame_data.val[frame_nbr])]

\* the last line summing the first accumulator for every metric
StopLine_FirstSum(d, runtime) ==
  <<"stop">> \o
    [i \in DOMAIN d |-> IF d[i].name = "time"
                        THEN ToString(runtime * 1000)
                        ELSE ToString(SumValues(d[1].per_frame_data.val))]

\* the text of the last line, as the words that ' ' ends
StopLine(d, runtime) ==
  <<"stop">> \o
    [i \in DOMAIN d |-> IF d[i].name = "time"
                        THEN ToString(runtime * 1000)
                        ELSE ToString(SumValues(d[i].per_frame_data.val))]

\* frames of data[0] whose line cannot be written: an accumulator read in
\* the line has no entry for the frame (KeyError)
Unwritable(d) ==
  {k \in DOMAIN d[1].per_frame_data.keys :
     \E i \in DOMAIN d : /\ d[i].name # "time"
                         /\ d[1].per_frame_data.keys[k] \notin DOMAIN d[i].per_frame_data.val}

\* with open(self.output_file, 'w') as file: ... ; the file written and the
\* exception raised.  A KeyError leaves the lines written before it.
WriteReport(d, runtime) ==
  LET keys == d[1].per_frame_data.keys
      bad == Unwritable(d)
  IN  IF bad = {}
      THEN [file |-> [exists |-> TRUE,
                      lines |-> [k \in DOMAIN keys |-> FrameLine(d, keys[k])],
                      stop |-> StopLine(d, runtime)],
            err |-> NoErr]
      ELSE LET first == CHOOSE k \in bad : \A j \in bad : k <= j
           IN  [file |-> [exists |-> TRUE,
                          lines |-> [k \in 1..(first - 1) |-> FrameLine(d, keys[k])],
                          stop |-> <<>>],
                err |-> Raise("KeyError", "frame_nbr")]

\* calc(n, f, clip, data) at clock reading t: the accumulators, the file (as it
\* was when calc does not open it), whether calc wrote it, the exception
calc(n, f, t) ==
  Only({ IF s.err # NoErr
         THEN [data |-> s.data, file |-> report, wrote |-> FALSE, err |-> s.err]
         ELSE IF Complete(s.data, total_frames)
         THEN Only({ [data |-> s.data, file |-> w.file, wrote |-> TRUE, err |-> w.err]
                     : w \in {WriteReport(s.data, t - start_time)} })
         ELSE [data |-> s.data, file |-> report, wrote |-> FALSE, err |-> NoErr]
         : s \in {saveAll(data, 1, n, f)} })

\* the value the metric libraries leave in each frame property: one of two
\* measurements per evaluation, told apart between properties
Measurements == {1, 2}

PropBase(prop) ==
  CASE prop = "PlaneSSIM" -> 10
    [] prop = "PlaneGMSD" -> 20
    [] prop = "FrameMDSI" -> 30
    [] prop = "_Diff" -> 40
    [] prop = "Frame_WaDIQaM" -> 50
    [] OTHER -> 0

\* f.props of a frame of prop_src[0].  With an empty prop_src (a selection of
\* 'time' alone) there is no frame to read; calc, if the host calls it, reads
\* none in that case.
Frame(src, v) ==
  IF src = <<>> THEN EmptyDict ELSE [prop \in src[1].props |-> PropBase(prop) + v]

\* the host evaluates frame n of the clip run returned
Eval(n, v) ==
  /\ phase = "running"
  /\ n \in 0..(final.frames - 1)
  /\ visited' = visited \cup {n}
  /\ last' = IF n \in visited THEN "recalc" ELSE "calc"
  /\ \E r \in {calc(n, Frame(prop_src, v), now)} :
         /\ data' = r.data
         /\ report' = r.file
         /\ wrote' = r.wrote
         /\ err' = r.err
  /\ UNCHANGED selfVars
  /\ UNCHANGED <<now, phase, total_frames, prop_src, calls, final>>

\* With an empty prop_src the host may hand calc no frame argument at all:
\* the call then fails before calc's body runs.
EvalWithoutFrame(n) ==
  /\ phase = "running"
  /\ prop_src = <<>>
  /\ n \in 0..(final.frames - 1)
  /\ visited' = visited \cup {n}
  /\ last' = IF n \in visited THEN "recalc" ELSE "calc"
  /\ err' = Raise("TypeError", "calc() missing 1 required positional argument: 'f'")
  /\ wrote' = FALSE
  /\ UNCHANGED selfVars
  /\ UNCHANGED <<now, phase, report>>
  /\ UNCHANGED runVars

\* time.perf_counter() advances
Tick ==
  /\ now - start_time < MaxTime
  /\ now' = now + 1
  /\ last' = "tick"
  /\ UNCHANGED selfVars
  /\ UNCHANGED <<phase, err>>
  /\ UNCHANGED runVars
  /\ UNCHANGED fileVars

CtorStep == \E list \in Lists(MetricNames, MaxList) : Construct(list)
AddMetricStep == \E metric \in MetricNames : AddMetric(metric)
AddMetricsStep == \E list \in Lists(MetricNames, MaxList) : AddMetrics(list)

Next == CtorStep \/ AddMetricStep \/ AddMetricsStep

Spec == Init /\ [][Next]_vars

(***************************************************************************)
(* SpecParams: a constructed object, its parameter bags changed by         *)
(* addParams and setVMAFModel, then run on two RGB clips of one frame.     *)
(***************************************************************************)
AddParamsStep == \E metric \in MetricNames, p \in ParamInputs : AddParams(metric, p)
SetVMAFModelStep == \E model \in {"0", "1"} : SetVMAFModel(model)
RunRGBStep == Run(Clip("RGB24", 1), Clip("RGB24", 1))

NextParams == CtorStep \/ AddParamsStep \/ SetVMAFModelStep \/ RunRGBStep

SpecParams == Init /\ [][NextParams]_vars

(***************************************************************************)
(* SpecRun: objects constructed with any matrix and tv_range, run on clips *)
(* of every input format.                                                  *)
(***************************************************************************)
InitRun ==
  \E mx \in {"None", "601", "709"}, tv \in {"None", "True", "False"} : InitWith(mx, tv)

RunStep ==
  \E f1, f2 \in InputFormats, n \in 1..MaxFrames : Run(Clip(f1, n), Clip(f2, n))

NextRun == CtorStep \/ RunStep

SpecRun == InitRun /\ [][NextRun]_vars

(***************************************************************************)
(* SpecEval: an object with a conversion matrix, run on two YUV clips of   *)
(* the same length, whose frames the host then evaluates in any order and  *)
(* any number of times while the clock advances.                           *)
(***************************************************************************)
InitEval == InitWith("709", "None")

RunYUVStep == \E n \in 1..MaxFrames : Run(Clip("YUV420P8", n), Clip("YUV420P8", n))

EvalStep == \E n \in 0..(MaxFrames - 1), v \in Measurements : Eval(n, v)

EvalWithoutFrameStep == \E n \in 0..(MaxFrames - 1) : EvalWithoutFrame(n)

NextEval == CtorStep \/ RunYUVStep \/ EvalStep \/ EvalWithoutFrameStep \/ Tick

SpecEval == InitEval /\ [][NextEval]_vars

(***************************************************************************)
(* Claims about the metric selection, checked under Spec.                  *)
(***************************************************************************)
VmafReadable == Range(supported_with_vmaf)

\* a selection in which 'vmaf' stands only beside 'time' and 'ssim'
Exclusive(ms) ==
  \A i, j \in DOMAIN ms : (ms[j] = "vmaf" /\ i # j) => ms[i] \in VmafReadable

\* C1: whenever 'vmaf' is selected every other selected metric is 'time' or
\* 'ssim', after the constructor and after every addMetric / addMetrics call;
\* a call whose names, appended, would break this raises NameError.
C1_VmafExclusive ==
  /\ [](Exclusive(metrics))
  /\ [][/\ \A metric \in MetricNames :
              (AddMetric(metric) /\ ~Exclusive(Append(metrics, metric)))
                => (err'.type = "NameError" /\ metrics' = metrics)
        /\ \A list \in Lists(MetricNames, MaxList) :
              ((AddMetrics(list) \/ Construct(list)) /\ ~Exclusive(metrics \o list))
                => (err'.type = "NameError" /\ Exclusive(metrics'))]_vars

\* a conflicting addMetric was rejected while 'vmaf' stood beside another metric
C1_Witness ==
  /\ last = "addMetric"
  /\ err = Raise("NameError", "Only these metrics are supported with vmaf")
  /\ "vmaf" \in Range(metrics)
  /\ Len(metrics) >= 2

IsPrefix(s, t) == Len(s) <= Len(t) /\ SubSeq(t, 1, Len(s)) = s

\* C5: the selection holds only names of the allowed set, grows only at its
\* end, one successfully added name at a time; addMetric with a name outside
\* the allowed set raises NameError and leaves the selection unchanged.
C5_SelectionValid ==
  /\ [](\A i \in DOMAIN metrics :
          metrics[i] \in {"time", "ssim", "gmsd", "mdsi", "butteraugli", "vmaf", "wadiqam"})
  /\ [][/\ IsPrefix(metrics, metrics')
        /\ \A metric \in MetricNames :
              AddMetric(metric) =>
                /\ err' = NoErr => metrics' = Append(metrics, metric)
                /\ err' # NoErr => metrics' = metrics
                /\ metric \notin {"time", "ssim", "gmsd", "mdsi", "butteraugli", "vmaf", "wadiqam"}
                     => (err'.type = "NameError" /\ metrics' = metrics)]_vars

\* an unknown name was rejected by addMetric on a selection of two names
C5_Witness ==
  /\ last = "addMetric"
  /\ err = Raise("NameError", "Unknown metric")
  /\ Len(metrics) = 2

\* C8: addMetric('vmaf') is rejected if and only if the selection holds a
\* metric outside {'time','ssim'}; on every selection drawn from
\* {'time','ssim'}, repeated names included, it succeeds and appends 'vmaf'.
C8_VmafRejectedIff ==
  [][AddMetric("vmaf") =>
       /\ (err' # NoErr) <=> (\E i \in DOMAIN metrics : metrics[i] \notin {"time", "ssim"})
       /\ Range(metrics) \subseteq {"time", "ssim"}
            => (err' = NoErr /\ metrics' = Append(metrics, "vmaf"))]_vars

\* C9: addMetrics (also when called by the constructor) applies its list left
\* to right and keeps what it appended: when the k-th name is rejected the
\* first k-1 names are appended, no later name is, and the error propagates;
\* with no rejection the whole list is appended.
C9_AddMetricsPrefix ==
  [][\A list \in Lists(MetricNames, MaxList) :
       (AddMetrics(list) \/ Construct(list)) =>
          IF \A k \in 1..Len(list) :
                 addMetric(metrics \o SubSeq(list, 1, k - 1), list[k]).err = NoErr
          THEN err' = NoErr /\ metrics' = metrics \o list
          ELSE \E k \in 1..Len(list) :
                 /\ \A j \in 1..(k - 1) :
                       addMetric(metrics \o SubSeq(list, 1, j - 1), list[j]).err = NoErr
                 /\ addMetric(metrics \o SubSeq(list, 1, k - 1), list[k]).err # NoErr
                 /\ metrics' = metrics \o SubSeq(list, 1, k - 1)
                 /\ err'.type = "NameError"
                 /\ err' = addMetric(metrics', list[k]).err]_vars

\* the constructor raised after appending the first name of its list
C9_Witness ==
  /\ phase = "failed"
  /\ err.type = "NameError"
  /\ Len(metrics) = 1

(***************************************************************************)
(* Claims about addParams, checked under SpecParams.                       *)
(***************************************************************************)
\* the bag of a metric: its entry of params, empty when it has none
Bag(ps, metric) == IF metric \in DOMAIN ps THEN ps[metric] ELSE EmptyDict

\* C7: for every allowed metric name and every dict, addParams succeeds and
\* merges the dict into that metric's bag (new keys added, existing keys
\* overridden, other bags unchanged); with a name outside the allowed set or
\* a non-dict it raises NameError and leaves all bags unchanged; run passes
\* the bag of a metric as the arguments of that metric's library call.
C7_AddParamsMerges ==
  /\ [][\A metric \in MetricNames, p \in ParamInputs :
          AddParams(metric, p) =>
            IF metric \in {"time", "ssim", "gmsd", "mdsi", "butteraugli", "vmaf", "wadiqam"}
               /\ p.type = "dict"
            THEN /\ err' = NoErr
                 /\ metric \in DOMAIN params'
                 /\ DOMAIN params'[metric] = (DOMAIN Bag(params, metric)) \cup (DOMAIN p.val)
                 /\ \A k \in DOMAIN p.val : params'[metric][k] = p.val[k]
                 /\ \A k \in (DOMAIN Bag(params, metric)) \ (DOMAIN p.val) :
                       params'[metric][k] = params[metric][k]
                 /\ \A other \in (DOMAIN params) \ {metric} : params'[other] = params[other]
            ELSE err'.type = "NameError" /\ params' = params]_vars
  /\ []((last = "run" /\ err = NoErr /\ phase = "running") =>
          \A i \in DOMAIN calls :
             \A metric \in {"ssim", "gmsd", "mdsi", "butteraugli", "wadiqam"} :
                calls[i].fn = MetricFn(metric) => calls[i].args = Bag(params, metric))

(***************************************************************************)
(* Claims about the colorspace conversion in run, checked under SpecRun.   *)
(***************************************************************************)
RGBOnly == {"mdsi", "butteraugli", "wadiqam"}

RGBOnlyFn == {"muv.MDSI", "Butteraugli.butteraugli", "vs_wadiqam.vs_wadiqam"}

IsRGB(format) == format \in {"RGB24", "RGB27", "RGB30", "RGB48", "RGBS"}

\* what C6 says of one run of a selection without 'vmaf' on clips of formats
\* f1 (reference) and f2 (alternate): calls' is what the run called
ConversionContract(f1, f2) ==
  LET rgbAt == {i \in DOMAIN metrics : metrics[i] \in RGBOnly}
      convs == {i \in DOMAIN calls' : calls'[i].fn = "resize.Bicubic"}
      rgbCalls == {i \in DOMAIN calls' : calls'[i].fn \in RGBOnlyFn}
      nonRGB == {x \in {<<1, f1>>, <<2, f2>>} : ~IsRGB(x[2])}
  IN  /\ rgbAt = {} => (err' = NoErr /\ convs = {})
      /\ (rgbAt # {} /\ nonRGB # {} /\ matrix = "None") =>
            LET first == CHOOSE i \in rgbAt : \A j \in rgbAt : i <= j
            IN  /\ err'.type = "NameError"
                /\ rgbCalls = {}
                /\ convs = {}
                /\ Len(calls') = Cardinality({i \in 1..(first - 1) : metrics[i] # "time"})
      /\ (rgbAt # {} /\ (nonRGB = {} \/ matrix # "None")) =>
            /\ err' = NoErr
            /\ Cardinality(rgbCalls) = Cardinality(rgbAt)
            /\ \A i \in rgbCalls : IsRGB(calls'[i].clip.format) /\ IsRGB(calls'[i].ref.format)
            /\ Cardinality(convs) = Cardinality(nonRGB)
            /\ \A i \in convs : ~IsRGB(calls'[i].clip.format)
            /\ \A i \in rgbCalls :
                  /\ IsRGB(f1) => calls'[i].ref.format = f1
                  /\ IsRGB(f2) => calls'[i].clip.format = f2

\* C6: in run without 'vmaf', a metric that needs RGB makes run fail with
\* NameError before its library call when a clip is not RGB and no matrix is
\* configured; with a matrix both clips are RGB at its library call; a clip
\* that is already RGB is passed on unconverted; the other metrics trigger no
\* conversion and no matrix error.
C6_ConversionContract ==
  [][\A f1, f2 \in InputFormats, n \in 1..MaxFrames :
       (Run(Clip(f1, n), Clip(f2, n)) /\ metrics # <<>> /\ "vmaf" \notin Range(metrics))
         => ConversionContract(f1, f2)]_vars

\* run raised the matrix error after it had called an earlier metric's library
C6_Witness ==
  /\ last = "run"
  /\ err = NeedMatrix
  /\ matrix = "None"
  /\ Len(calls) = 1
  /\ Len(metrics) = 2
  /\ metrics[2] \in RGBOnly

(***************************************************************************)
(* Claims about the per-frame callback and the report, checked under       *)
(* SpecEval.                                                               *)
(***************************************************************************)
Frames == 0..(total_frames - 1)

\* the last step was calc and it wrote the report file
JustWritten == last \in {"calc", "recalc"} /\ wrote

\* C2: once every frame index 0..N-1 of the clip has been evaluated at least
\* once, the report file has been written, for every accepted non-empty
\* selection without 'vmaf'.
C2_ReportOnCompletion ==
  (phase = "running" /\ visited = Frames) => report.exists

\* C3: whenever calc writes the report, the accumulator of every selected
\* metric other than 'time' holds an entry for every frame index 0..N-1.
C3_NeverEarly ==
  JustWritten =>
    /\ Len(data) = Len(metrics)
    /\ \A i \in DOMAIN data :
          /\ data[i].name = metrics[i]
          /\ data[i].name # "time" => DOMAIN data[i].per_frame_data.val = Frames

\* calc wrote the report of two metrics after frame 1 and then frame 0
C3_Witness ==
  /\ JustWritten
  /\ total_frames = 2
  /\ Len(metrics) = 2
  /\ data[1].per_frame_data.keys = <<1, 0>>

RECURSIVE SumFirst(_, _)
SumFirst(val, n) == IF n = 0 THEN 0 ELSE val[n - 1] + SumFirst(val, n - 1)

\* C4: a written report holds exactly one line per frame index 0..N-1, the
\* index followed by one value per selected metric in selection order (the
\* accumulated value of that frame, '0.0' for 'time'), and then one 'stop'
\* line with one value per selected metric in selection order: the sum of
\* the metric's N per-frame values, or the elapsed milliseconds for 'time'.
C4_ReportContent ==
  (JustWritten /\ err = NoErr) =>
    /\ report.exists
    /\ Len(report.lines) = total_frames
    /\ {report.lines[k][1] : k \in DOMAIN report.lines} = {ToString(n) : n \in Frames}
    /\ \A k \in DOMAIN report.lines :
          /\ Len(report.lines[k]) = 1 + Len(metrics)
          /\ \A n \in Frames :
                report.lines[k][1] = ToString(n) =>
                  \A j \in DOMAIN metrics :
                     report.lines[k][j + 1] =
                       IF metrics[j] = "time"
                       THEN "0.0"
                       ELSE ToString(data[j].per_frame_data.val[n])
    /\ Len(report.stop) = 1 + Len(metrics)
    /\ report.stop[1] = "stop"
    /\ \A j \in DOMAIN metrics :
          report.stop[j + 1] =
            IF metrics[j] = "time"
            THEN ToString((now - start_time) * 1000)
            ELSE ToString(SumFirst(data[j].per_frame_data.val, total_frames))

\* calc wrote the report of a measured metric and 'time' for two frames with
\* different measurements, some time after construction
C4_Witness ==
  /\ JustWritten
  /\ err = NoErr
  /\ total_frames = 2
  /\ Len(metrics) = 2
  /\ metrics[1] # "time"
  /\ metrics[2] = "time"
  /\ data[1].per_frame_data.val[0] # data[1].per_frame_data.val[1]
  /\ now > start_time

\* C10: every accumulator's keys are frame indices 0..N-1, at most N of them;
\* evaluating a frame again overwrites its entry and adds none; the
\* accumulators of the selected metrics other than 'time' always have the
\* same keys; the accumulator of 'time' stays empty.
C10_Accumulators ==
  /\ [](phase = "running" =>
          \A i \in DOMAIN data :
             LET d == data[i].per_frame_data
             IN  /\ Range(d.keys) \subseteq Frames
                 /\ Len(d.keys) <= total_frames
                 /\ Cardinality(Range(d.keys)) = Len(d.keys)
                 /\ DOMAIN d.val = Range(d.keys)
                 /\ data[i].name = "time" => d.keys = <<>>
                 /\ data[i].name # "time" => Range(d.keys) = visited
                 /\ \A j \in DOMAIN data :
                       (data[i].name # "time" /\ data[j].name # "time")
                         => d.keys = data[j].per_frame_data.keys)
  /\ [][last' \in {"calc", "recalc"} =>
          \E n \in visited', v \in Measurements :
             /\ visited' = visited \cup {n}
             /\ (last' = "recalc") <=> (n \in visited)
             /\ DOMAIN data' = DOMAIN data
             /\ \A i \in DOMAIN data :
                   LET d == data[i].per_frame_data
                       e == data'[i].per_frame_data
                   IN  /\ e.keys = IF n \in Range(d.keys) \/ data[i].name = "time"
                                    THEN d.keys
                                    ELSE Append(d.keys, n)
                       /\ data[i].name # "time" =>
                             /\ e.val[n] = PropBase(LibraryProp(data[i].name)) + v
                             /\ \A m \in (DOMAIN d.val) \ {n} : e.val[m] = d.val[m]]_vars

\* frame 1 then frame 0 were evaluated and one of them evaluated again, with
\* one accumulator filled and one for 'time'
C10_Witness ==
  /\ last = "recalc"
  /\ total_frames = 2
  /\ Len(data) = 2
  /\ data[1].name # "time"
  /\ data[2].name = "time"
  /\ data[1].per_frame_data.keys = <<1, 0>>

====
